---- MODULE Spec2Model ----
(***************************************************************************)
(* Model of the image-variant state machine of the product customizer:     *)
(* ProductCustomizer (upload, remove background, enhance, toggle, clear,   *)
(* stop, unmount), the remote processing calls it starts, the blob URLs it *)
(* creates and revokes, the image-decode reads of the dimensions, and the  *)
(* AddToCartButton that receives the cart image reference.                 *)
(*                                                                         *)
(* Scheduling is the browser's: every handler invocation and every         *)
(* completed I/O callback is one action; the rejection of an aborted call  *)
(* is a microtask and runs before any other task.                          *)
(***************************************************************************)
EXTENDS Integers, Sequences, FiniteSets, TLC

\* ---------------------------------------------------------------- bounds
MaxUploads == 2
MaxCalls == 2
MaxWork == 3
MaxPendingReads == 2
MaxCartRequests == 1
MaxCartUploads == 1
MaxCartCalls == 1
MaxCartWork == 3
MaxDimsUploads == 2
MaxDimsCalls == 1
MaxDimsWork == 2
MaxReprocessUploads == 1
MaxReprocessCalls == 3
MaxSizeUploads == 1
MaxSizeOps == 2
MaxLiveUploads == 1
MaxLiveCalls == 1
MaxLiveWork == 2
MaxSubmitUploads == 1
MaxSubmitCalls == 2
MaxSubmitRequests == 2
MaxSubmitWork == 4
NumProducts == 1
MaxViewerUrls == 2
MaxPropChanges == 3
MaxSelections == 2
MaxPanelUploads == 2
MaxPanelCalls == 1

\* ------------------------------------------------------------- constants
DIMENSION_MIN == 50
DIMENSION_MAX == 2250
DPI == 300
InitialSize == 1000

\* ---------------------------------------------------------------- values
\* Image bytes: the uploaded file and the chain of remote operations applied.
NoBlob == [file |-> 0, ops |-> <<>>]

\* A URL value: null, a blob: URL (n-th object URL created), or a server URL
\* (API_BASE followed by a path that addresses stored image bytes).
NullUrl == [scheme |-> "null", n |-> 0, path |-> NoBlob]
BlobUrl(k) == [scheme |-> "blob:", n |-> k, path |-> NoBlob]

\* A response header value: absent, or a path with or without a leading "/".
NoLink == [present |-> FALSE, slash |-> FALSE, path |-> NoBlob]
Link(sl, b) == [present |-> TRUE, slash |-> sl, path |-> b]

startsWithBlob(u) == u.scheme = "blob:"

buildServerUrl(link) ==
  IF ~link.present THEN NullUrl
  ELSE [scheme |-> "https:", n |-> 0, path |-> link.path]

\* Pixel size of the uploaded files, and of what the remote operations return
\* (enhance upscales, remove-bg keeps the size).
FilePx(f) == IF f = 1 THEN <<30, 1500>> ELSE IF f = 2 THEN <<9000, 3000>> ELSE <<1200, 600>>

RECURSIVE Scale(_)
Scale(ops) == IF ops = <<>> THEN 1
              ELSE (IF Head(ops) = "enhance" THEN 2 ELSE 1) * Scale(Tail(ops))

BlobPx(b) == <<FilePx(b.file)[1] * Scale(b.ops), FilePx(b.file)[2] * Scale(b.ops)>>

\* +(px / DPI).toFixed(2), in hundredths of an inch (round half up)
ToFixed2(px) == (px * 200 + DPI) \div (2 * DPI)

Min(a, b) == IF a < b THEN a ELSE b
Max(a, b) == IF a > b THEN a ELSE b

ClampInches(px) == Min(DIMENSION_MAX, Max(DIMENSION_MIN, ToFixed2(px)))

\* The remote processing service: the processed bytes for an input.
Process(op, b) == [file |-> b.file, ops |-> Append(b.ops, op)]

\* The body of a response with a non-2xx status: an error document, not an image.
ErrorBody == [file |-> 0, ops |-> <<"error">>]

\* an image element can decode these bytes
Decodable(b) == b # ErrorBody

\* ----------------------------------------------------------------- state
VARIABLES
  st,            \* React state of ProductCustomizer
  ref,           \* its refs: currentBlobUrlRef, originalBlobUrlRef, processedBlobUrlRef, abortControllerRef
  urls,          \* object URLs created so far: bytes referred to, number of revocations
  calls,         \* remote processing calls whose handler has not returned yet
                 \* (wrote: the handler has changed state since its fetch resolved;
                 \*  ok: res.ok of the response received; processedUrl: its local)
  nCalls,        \* remote processing calls (AbortControllers) created so far
  pendingReads,  \* image-decode reads of dimensions not yet completed
  mounted,       \* the component has not been unmounted
  nUploads,      \* files uploaded so far
  cart,          \* AddToCartButton: variantId prop and isLoading / error / success state;
                 \* outstanding: its fetch has not been answered; redirect: the timer
                 \* that sets window.location.href ("none", "scheduled")
  cartRequests,  \* requests sent to /cart/add.js
  lastOp,        \* the operation (handler) invoked last
  limits,        \* the uploads, remote calls and cart requests a session may start in this
                 \* specification, and the size-control actions it may still take
  lastRead,      \* the object URL of the most recently requested read of dimensions (0: none)
  viewer,        \* DesignViewer: imageUrl prop, refs, canvases and pending image loads
  panel          \* UploadPanel: crop modal, pendingUpload and the display handles it created

vars == <<st, ref, urls, calls, nCalls, pendingReads, mounted, nUploads, cart, cartRequests, lastOp,
          limits, lastRead, viewer, panel>>

\* the preview canvases of DesignViewer (products.map)
Products == 1 .. NumProducts

\* DesignViewer after its first render and effects: the refs are empty, the
\* animation frame that creates the canvases is requested
InitViewerState ==
  [ imageUrl |-> 0,
    prevImageUrlRef |-> 0,
    logoRequestIdRef |-> 0,
    generation |-> 1,
    frame |-> 1,
    fabricCanvasesRef |-> [idx \in Products |-> 0],
    baseImagesRef |-> [idx \in Products |-> 0],
    objects |-> [idx \in Products |-> {}],
    loads |-> {},
    changes |-> 0,
    ignored |-> FALSE ]

\* UploadPanel after its first render
InitPanelState ==
  [ showCropModal |-> FALSE,
    pendingUpload |-> 0,
    handles |-> <<>>,
    crops |-> {} ]

InitState ==
  [ imageUrl |-> NullUrl,
    width |-> InitialSize,
    height |-> InitialSize,
    currentImageBlob |-> NoBlob,
    originalImageBlob |-> NoBlob,
    processedImageBlob |-> NoBlob,
    originalImageUrl |-> NullUrl,
    processedImageUrl |-> NullUrl,
    originalServerUrl |-> NullUrl,
    processedServerUrl |-> NullUrl,
    finalImageUrl |-> NullUrl,
    loadingRemoveBg |-> FALSE,
    loadingEnhance |-> FALSE,
    removeBgEnabled |-> TRUE ]

InitRefs ==
  [ currentBlobUrlRef |-> NullUrl,
    originalBlobUrlRef |-> NullUrl,
    processedBlobUrlRef |-> NullUrl,
    abortControllerRef |-> 0 ]

Init ==
  /\ st = InitState
  /\ ref = InitRefs
  /\ urls = <<>>
  /\ calls = {}
  /\ nCalls = 0
  /\ pendingReads = {}
  /\ mounted = TRUE
  /\ nUploads = 0
  /\ cart = [variantId |-> 1, isLoading |-> FALSE, error |-> "", success |-> FALSE,
             outstanding |-> FALSE, redirect |-> "none"]
  /\ cartRequests = <<>>
  /\ lastOp = "init"
  /\ limits = [uploads |-> MaxUploads, calls |-> MaxCalls, work |-> MaxWork, sizeOps |-> 0,
               requests |-> MaxCartRequests]
  /\ lastRead = 0
  /\ viewer = InitViewerState
  /\ panel = InitPanelState


\* --------------------------------------------------------------- helpers
Truthy(u) == u # NullUrl
HasBlob(b) == b # NoBlob

\* React ignores state updates of an unmounted component.
SetState(new) == IF mounted THEN new ELSE st

\* a revocation that releases nothing
revokeObjectURL_Noop(U, u) == U

\* URL.revokeObjectURL(u), as guarded at every call site: u && u.startsWith("blob:")
revokeObjectURL(U, u) ==
  IF Truthy(u) /\ startsWithBlob(u) THEN [U EXCEPT ![u.n].revokes = @ + 1] ELSE U

\* URL.createObjectURL(blob)
createObjectURL(U, b) == Append(U, [blob |-> b, revokes |-> 0])

\* the guarded call site is reached with u and its URL.revokeObjectURL(u) throws
Throws(u, throws) == throws /\ Truthy(u) /\ startsWithBlob(u)

\* a call site of URL.revokeObjectURL(u) whose call may throw: nothing is released then
release(U, u, throws) == IF Throws(u, throws) THEN U ELSE revokeObjectURL(U, u)

\* abortControllerRef.current?.abort()
abort(C, id) == { IF c.id = id THEN [c EXCEPT !.aborted = TRUE] ELSE c : c \in C }

\* a handler that issues no fetch
startCall_Nothing(C, id, handler, op, input) == C

\* startCall without the abort of the previous controller
startCall_NoAbort(C, id, handler, op, input) ==
  C \cup
    { [id |-> nCalls + 1, handler |-> handler, op |-> op, input |-> input,
       aborted |-> FALSE, phase |-> "fetch", wrote |-> FALSE, ok |-> TRUE,
       processedUrl |-> NullUrl] }

\* abort the previous controller, install a new one and issue the fetch
startCall(C, id, handler, op, input) ==
  abort(C, id) \cup
    { [id |-> nCalls + 1, handler |-> handler, op |-> op, input |-> input,
       aborted |-> FALSE, phase |-> "fetch", wrote |-> FALSE, ok |-> TRUE,
       processedUrl |-> NullUrl] }

\* started, not settled, cancellation token not aborted
Live(c) == c \in calls /\ ~c.aborted

\* A rejected promise of an aborted call is a queued microtask.
MicrotaskQueued == \E c \in calls : c.aborted

\* a user event or an I/O callback can run
TaskCanRun == ~MicrotaskQueued

\* getImageDimensionsInInches(url): starts an image load of url
getImageDimensionsInInches(U, u) == [url |-> u.n, dead |-> U[u.n].revokes > 0]

\* no more image loads at once than the bound
ReadsBounded(R) == Cardinality(R) <= MaxPendingReads

\* updateDimensionsFromImageUrl(url)
updateDimensionsFromImageUrl(R, U, u) ==
  IF ~Truthy(u) THEN R ELSE R \cup {getImageDimensionsInInches(U, u)}

\* the session stays within the bounds with u uploads and n remote calls
WithinBounds(u, n) == u <= limits.uploads /\ n <= limits.calls /\ u + n <= limits.work

LoadingFlag(handler) ==
  IF handler = "handleEnhance" THEN "loadingEnhance" ELSE "loadingRemoveBg"

\* ------------------------------------------------------ cart projection
\* a cart reference that ignores the toggle
cartImageUrl_ProcessedOnly(s) ==
  IF Truthy(s.processedServerUrl) THEN s.processedServerUrl ELSE NullUrl

\* cartImageUrl falling back to the displayed URL when no server URL is known
cartImageUrl_DisplayFallback(s) ==
  IF s.removeBgEnabled
    THEN (IF Truthy(s.processedServerUrl) THEN s.processedServerUrl ELSE s.imageUrl)
    ELSE (IF Truthy(s.originalServerUrl) THEN s.originalServerUrl ELSE s.imageUrl)

cartImageUrl(s) ==
  IF s.removeBgEnabled
    THEN (IF Truthy(s.processedServerUrl) THEN s.processedServerUrl ELSE NullUrl)
    ELSE (IF Truthy(s.originalServerUrl) THEN s.originalServerUrl ELSE NullUrl)

isServerUrl(u) == Truthy(u) /\ ~startsWithBlob(u)

\* isValid without the check of the image reference
isValid_NoUrlCheck(u, w, h, variantId) == w > 0 /\ h > 0 /\ variantId # 0

isValid(u, w, h, variantId) == isServerUrl(u) /\ w > 0 /\ h > 0 /\ variantId # 0

\* ------------------------------------------------------------- handlers
\* handleImageUpload(url, file) up to its await fetch(...); throwsOriginal,
\* throwsProcessed: the revocation at lines 364, 371 throws (both are in try/catch)
Upload(throwsOriginal, throwsProcessed) ==
  /\ mounted /\ TaskCanRun
  /\ WithinBounds(nUploads + 1, IF st.removeBgEnabled THEN nCalls + 1 ELSE nCalls)
  /\ LET file == [file |-> nUploads + 1, ops |-> <<>>]
         U0   == createObjectURL(urls, file)       \* by the crop modal
         url  == BlobUrl(Len(U0))
         U1   == IF ref.originalBlobUrlRef # url
                   THEN release(U0, ref.originalBlobUrlRef, throwsOriginal) ELSE U0
         U2   == release(U1, ref.processedBlobUrlRef, throwsProcessed)
         auto == HasBlob(file) /\ st.removeBgEnabled
     IN /\ urls' = U2
        /\ st' = [st EXCEPT !.originalImageBlob = file,
                            !.originalImageUrl = url,
                            !.processedImageBlob = NoBlob,
                            !.processedImageUrl = NullUrl,
                            !.originalServerUrl = NullUrl,
                            !.processedServerUrl = NullUrl,
                            !.finalImageUrl = NullUrl,
                            !.imageUrl = url,
                            !.currentImageBlob = file,
                            !.loadingRemoveBg = IF auto THEN TRUE ELSE @]
        /\ ref' = [ref EXCEPT !.originalBlobUrlRef = url,
                              !.processedBlobUrlRef = NullUrl,
                              !.currentBlobUrlRef = url,
                              !.abortControllerRef = IF auto THEN nCalls + 1 ELSE @]
        /\ pendingReads' = pendingReads \cup {getImageDimensionsInInches(U2, url)}
        /\ lastRead' = url.n
        /\ calls' = IF auto
                      THEN startCall(calls, ref.abortControllerRef, "handleImageUpload", "remove-bg", file)
                      ELSE calls
        /\ nCalls' = IF auto THEN nCalls + 1 ELSE nCalls
  /\ nUploads' = nUploads + 1
  /\ lastOp' = "handleImageUpload"
  /\ UNCHANGED <<mounted, cart, cartRequests, limits, viewer>>

handleImageUpload == Upload(FALSE, FALSE) /\ UNCHANGED panel

handleCancelProcessing ==
  /\ mounted /\ TaskCanRun
  /\ calls' = abort(calls, ref.abortControllerRef)
  /\ st' = [st EXCEPT !.loadingRemoveBg = FALSE, !.loadingEnhance = FALSE]
  /\ lastOp' = "handleCancelProcessing"
  /\ UNCHANGED <<ref, urls, nCalls, pendingReads, mounted, nUploads, cart, cartRequests, limits, lastRead, viewer, panel>>

\* handleRemoveBg and handleEnhance up to their await fetch(...)
StartProcessing(handler, op, busy) ==
  /\ mounted /\ TaskCanRun
  /\ lastOp' = handler
  /\ IF ~HasBlob(st.currentImageBlob) \/ busy
       THEN UNCHANGED <<st, ref, calls, nCalls>>
       ELSE /\ WithinBounds(nUploads, nCalls + 1)
            /\ calls' = startCall(calls, ref.abortControllerRef, handler, op, st.currentImageBlob)
            /\ nCalls' = nCalls + 1
            /\ ref' = [ref EXCEPT !.abortControllerRef = nCalls + 1]
            /\ st' = [st EXCEPT ![LoadingFlag(handler)] = TRUE]
  /\ UNCHANGED <<urls, pendingReads, mounted, nUploads, cart, cartRequests, limits, lastRead, viewer, panel>>

handleRemoveBg == StartProcessing("handleRemoveBg", "remove-bg", st.loadingRemoveBg)

handleEnhance == StartProcessing("handleEnhance", "enhance", st.loadingEnhance)

\* handleClearDesign(); throwsOriginal, throwsProcessed: the revocation at
\* lines 597, 604 throws (both are in try/catch)
ClearDesign(throwsOriginal, throwsProcessed) ==
  /\ mounted /\ TaskCanRun
  /\ urls' = release(release(urls, ref.originalBlobUrlRef, throwsOriginal),
                     ref.processedBlobUrlRef, throwsProcessed)
  /\ ref' = [ref EXCEPT !.currentBlobUrlRef = NullUrl,
                        !.originalBlobUrlRef = NullUrl,
                        !.processedBlobUrlRef = NullUrl]
  /\ st' = [st EXCEPT !.imageUrl = NullUrl,
                      !.currentImageBlob = NoBlob,
                      !.originalImageBlob = NoBlob,
                      !.originalImageUrl = NullUrl,
                      !.processedImageBlob = NoBlob,
                      !.processedImageUrl = NullUrl,
                      !.originalServerUrl = NullUrl,
                      !.processedServerUrl = NullUrl,
                      !.finalImageUrl = NullUrl]
  /\ lastOp' = "handleClearDesign"
  /\ UNCHANGED <<calls, nCalls, pendingReads, mounted, nUploads, cart, cartRequests, limits, lastRead, viewer, panel>>

handleClearDesign == ClearDesign(FALSE, FALSE)

\* a toggle that never reuses the stored processed image
hasProcessed_Never(s, enabled) == FALSE

\* enabled && processedImageUrl && processedImageBlob
hasProcessed(s, enabled) ==
  enabled /\ Truthy(s.processedImageUrl) /\ HasBlob(s.processedImageBlob)

\* a toggle that starts processing whenever nothing processed is stored
ToggleBranch_AlwaysProcess(s, enabled) ==
  IF ~enabled /\ Truthy(s.originalImageUrl) /\ HasBlob(s.originalImageBlob) THEN "original"
  ELSE IF hasProcessed(s, enabled) THEN "processed"
  ELSE IF enabled /\ ~HasBlob(s.processedImageBlob) THEN "process"
  ELSE "none"

\* a toggle that never processes the original
ToggleBranch_NoProcess(s, enabled) ==
  IF ~enabled /\ Truthy(s.originalImageUrl) /\ HasBlob(s.originalImageBlob) THEN "original"
  ELSE IF hasProcessed(s, enabled) THEN "processed"
  ELSE "none"

\* the branch handleToggleRemoveBg(enabled) takes in state s
ToggleBranch(s, enabled) ==
  IF ~enabled /\ Truthy(s.originalImageUrl) /\ HasBlob(s.originalImageBlob) THEN "original"
  ELSE IF hasProcessed(s, enabled) THEN "processed"
  ELSE IF enabled /\ HasBlob(s.originalImageBlob) /\ ~HasBlob(s.processedImageBlob) THEN "process"
  ELSE "none"

\* the state setters handleToggleRemoveBg(enabled) calls before it returns or awaits
ToggleState(s, enabled) ==
  LET b == ToggleBranch(s, enabled)
  IN IF b = "original"
       THEN [s EXCEPT !.removeBgEnabled = enabled,
                      !.imageUrl = s.originalImageUrl,
                      !.currentImageBlob = s.originalImageBlob,
                      !.finalImageUrl = s.originalServerUrl]
     ELSE IF b = "processed"
       THEN [s EXCEPT !.removeBgEnabled = enabled,
                      !.imageUrl = s.processedImageUrl,
                      !.currentImageBlob = s.processedImageBlob,
                      !.finalImageUrl = s.processedServerUrl]
     ELSE IF b = "process"
       THEN [s EXCEPT !.removeBgEnabled = enabled, !.loadingRemoveBg = TRUE]
     ELSE [s EXCEPT !.removeBgEnabled = enabled]

handleToggleRemoveBg(enabled) ==
  /\ mounted /\ TaskCanRun
  /\ lastOp' = "handleToggleRemoveBg"
  /\ st' = ToggleState(st, enabled)
  /\ LET b == ToggleBranch(st, enabled)
     IN IF b \in {"original", "processed"}
          THEN /\ ref' = [ref EXCEPT !.currentBlobUrlRef = st'.imageUrl]
               /\ pendingReads' = updateDimensionsFromImageUrl(pendingReads, urls, st'.imageUrl)
               /\ lastRead' = IF Truthy(st'.imageUrl) THEN st'.imageUrl.n ELSE lastRead
               /\ UNCHANGED <<calls, nCalls>>
        ELSE IF b = "process"
          THEN /\ WithinBounds(nUploads, nCalls + 1)
               /\ calls' = startCall(calls, ref.abortControllerRef, "handleToggleRemoveBg",
                                     "remove-bg", st.originalImageBlob)
               /\ nCalls' = nCalls + 1
               /\ ref' = [ref EXCEPT !.abortControllerRef = nCalls + 1]
               /\ UNCHANGED <<pendingReads, lastRead>>
        ELSE UNCHANGED <<ref, calls, nCalls, pendingReads, lastRead>>
  /\ UNCHANGED <<urls, mounted, nUploads, cart, cartRequests, limits, viewer, panel>>

\* cleanup effect of ProductCustomizer on unmount
Unmount ==
  /\ mounted /\ TaskCanRun
  /\ mounted' = FALSE
  /\ urls' = revokeObjectURL(revokeObjectURL(urls, ref.originalBlobUrlRef),
                             ref.processedBlobUrlRef)
  /\ lastOp' = "unmount"
  /\ UNCHANGED <<st, ref, calls, nCalls, pendingReads, nUploads, cart, cartRequests, limits, lastRead, viewer, panel>>


\* ------------------------------------------- remote call continuations
\* What the endpoint may put in a link header for image bytes b; a response
\* with a non-2xx status carries no link header.
LinkValues(ok, b) == IF ok THEN {NoLink, Link(TRUE, b), Link(FALSE, b)} ELSE {NoLink}

\* await fetch(...) resolves with a response of any status (res.ok is never
\* read): the handler reads the two link headers and goes on to await res.blob()
FetchResolves(c) ==
  /\ TaskCanRun
  /\ Live(c) /\ c.phase = "fetch"
  /\ \E ok \in BOOLEAN :
     \E processedLink \in LinkValues(ok, Process(c.op, c.input)),
        originalLink \in LinkValues(ok, c.input) :
       LET s1 == IF processedLink.present
                   THEN [st EXCEPT !.processedServerUrl = buildServerUrl(processedLink),
                                   !.finalImageUrl = buildServerUrl(processedLink)]
                   ELSE st
           s2 == IF originalLink.present
                   THEN [s1 EXCEPT !.originalServerUrl = buildServerUrl(originalLink)]
                   ELSE s1
       IN /\ st' = SetState(s2)
          /\ calls' = (calls \ {c}) \cup
                        {[c EXCEPT !.phase = "body", !.wrote = (SetState(s2) # st),
                                   !.ok = ok,
                                   !.processedUrl = buildServerUrl(processedLink)]}
  /\ UNCHANGED <<ref, urls, nCalls, pendingReads, mounted, nUploads, cart, cartRequests, lastOp, limits, lastRead, viewer, panel>>

\* a catch block with no finally after it
CallFails_NoFinally(c) ==
  /\ TaskCanRun
  /\ Live(c)
  /\ calls' = calls \ {c}
  /\ UNCHANGED <<st, ref, urls, nCalls, pendingReads, mounted, nUploads, cart, cartRequests, lastOp, limits, lastRead, viewer, panel>>

\* await fetch(...) or await res.blob() rejects with an error other than
\* AbortError: catch logs it, finally clears the loading flag
CallFails(c) ==
  /\ TaskCanRun
  /\ Live(c)
  /\ st' = SetState([st EXCEPT ![LoadingFlag(c.handler)] = FALSE])
  /\ calls' = calls \ {c}
  /\ UNCHANGED <<ref, urls, nCalls, pendingReads, mounted, nUploads, cart, cartRequests, lastOp, limits, lastRead, viewer, panel>>

\* the pending await of an aborted call rejects with AbortError: catch
\* returns, finally clears the loading flag
AbortRejection(c) ==
  /\ c \in calls /\ c.aborted
  /\ st' = SetState([st EXCEPT ![LoadingFlag(c.handler)] = FALSE])
  /\ calls' = calls \ {c}
  /\ UNCHANGED <<ref, urls, nCalls, pendingReads, mounted, nUploads, cart, cartRequests, lastOp, limits, lastRead, viewer, panel>>

\* every handler re-derives the dimensions from its result
updatesDimensions_Always(handler) == TRUE

\* the handler calls updateDimensionsFromImageUrl on its result: all but
\* handleEnhance ("Do not update dimensions")
updatesDimensions(handler) == handler # "handleEnhance"

\* await res.blob() resolves: the rest of the try block, and finally.
\* throwsProcessed: the revocation of processedBlobUrlRef (508, 566, in
\* try/catch) throws; throwsCurrent: the revocation of currentBlobUrlRef (514,
\* 572, not in try/catch) throws, which the catch of the handler receives: the
\* statements after it are not run.
Resume(c, throwsProcessed, throwsCurrent) ==
  /\ TaskCanRun
  /\ Live(c) /\ c.phase = "body"
  /\ LET h == c.handler
         processedBlob == IF c.ok THEN Process(c.op, c.input) ELSE ErrorBody
         replaces == h \in {"handleRemoveBg", "handleEnhance"}
         U0 == createObjectURL(urls, processedBlob)
         newDisplayUrl == BlobUrl(Len(U0))
         U1 == IF replaces THEN release(U0, ref.processedBlobUrlRef, throwsProcessed) ELSE U0
         U2 == IF replaces THEN release(U1, ref.currentBlobUrlRef, throwsCurrent) ELSE U1
         thrown == replaces /\ Throws(ref.currentBlobUrlRef, throwsCurrent)
     IN /\ urls' = U2
        /\ ref' = [ref EXCEPT !.processedBlobUrlRef = newDisplayUrl,
                              !.currentBlobUrlRef = IF thrown THEN @ ELSE newDisplayUrl]
        /\ st' = SetState([st EXCEPT !.processedImageBlob = processedBlob,
                                     !.currentImageBlob = processedBlob,
                                     !.processedImageUrl = newDisplayUrl,
                                     !.imageUrl = IF thrown THEN @ ELSE newDisplayUrl,
                                     ![LoadingFlag(h)] = FALSE])
        /\ pendingReads' = IF updatesDimensions(h) /\ ~thrown
                             THEN updateDimensionsFromImageUrl(pendingReads, U2, newDisplayUrl)
                             ELSE pendingReads
        /\ lastRead' = IF updatesDimensions(h) /\ ~thrown THEN newDisplayUrl.n ELSE lastRead
  /\ calls' = calls \ {c}
  /\ UNCHANGED <<nCalls, mounted, nUploads, cart, cartRequests, lastOp, limits, viewer, panel>>

BodyArrives(c) == Resume(c, FALSE, FALSE)

\* ------------------------------------------------------ dimension reads
\* img.onload: natural size to inches, clamped
ReadResolves(r) ==
  /\ TaskCanRun
  /\ r \in pendingReads
  /\ ~r.dead /\ Decodable(urls[r.url].blob)
  /\ LET px == BlobPx(urls[r.url].blob)
     IN st' = SetState([st EXCEPT !.width = ClampInches(px[1]),
                                  !.height = ClampInches(px[2])])
  /\ pendingReads' = pendingReads \ {r}
  /\ UNCHANGED <<ref, urls, calls, nCalls, mounted, nUploads, cart, cartRequests, lastOp, limits, lastRead, viewer, panel>>

\* a failed read that falls back to the smallest size
ReadRejects_ResetsDimensions(r) ==
  /\ TaskCanRun
  /\ r \in pendingReads
  /\ st' = SetState([st EXCEPT !.width = DIMENSION_MIN, !.height = DIMENSION_MIN])
  /\ pendingReads' = pendingReads \ {r}
  /\ UNCHANGED <<ref, urls, calls, nCalls, mounted, nUploads, cart, cartRequests, lastOp, limits, lastRead, viewer, panel>>

\* img.onerror: a warning, dimensions unchanged.  A URL revoked when the load
\* started and bytes that are no image cannot load; another load may fail as
\* well (decode error).
ReadRejects(r) ==
  /\ TaskCanRun
  /\ r \in pendingReads
  /\ pendingReads' = pendingReads \ {r}
  /\ UNCHANGED <<st, ref, urls, calls, nCalls, mounted, nUploads, cart, cartRequests, lastOp, limits, lastRead, viewer, panel>>

\* ------------------------------------------------------- SizeControls
\* Sizes are in hundredths of an inch; a quotient n / d is kept exact until
\* clamp rounds it.
STEP_INCHES == 100
MIN_SIZE == 50
MAX_SIZE == 2250

\* +(n / d).toFixed(2), in hundredths
RoundDiv(n, d) == (2 * n + d) \div (2 * d)

\* a clamp that only rounds
clamp_RoundOnly(n, d) == RoundDiv(n, d)

\* clamp(v) for v = n / d
clamp(n, d) ==
  IF n >= MAX_SIZE * d THEN MAX_SIZE
  ELSE IF n <= MIN_SIZE * d THEN MIN_SIZE
  ELSE RoundDiv(n, d)

\* what a user can type into a size input, in thousandths of an inch;
\* EmptyText is the empty string, NoNumber a text parseFloat maps to NaN
EmptyText == -1
NoNumber == -2
TypedValues == {EmptyText, NoNumber, 499, 500, 3333, 22500, 22501}

\* settings.predefinedSizes as Number(s.width), Number(s.height), in hundredths
PredefinedSizes == {<<400, 400>>, <<0, 3000>>, <<1150, 1400>>}

\* a handler of SizeControls that sets width to w and height to h
SetSize(op, w, h) ==
  /\ mounted /\ TaskCanRun
  /\ limits.sizeOps > 0
  /\ limits' = [limits EXCEPT !.sizeOps = @ - 1]
  /\ st' = [st EXCEPT !.width = w, !.height = h]
  /\ lastOp' = op
  /\ UNCHANGED <<ref, urls, calls, nCalls, pendingReads, mounted, nUploads, cart, cartRequests, lastRead, viewer, panel>>

selectPredefined == \E s \in PredefinedSizes : SetSize("selectPredefined", clamp(s[1], 1), clamp(s[2], 1))

\* incrementWidth / decrementWidth with newWidth already stepped and bounded:
\* newHeight = newWidth * aspectRatio, aspectRatio = height / width
StepWidth(op, newWidth) ==
  LET n == newWidth * st.height      \* newHeight = n / d
      d == st.width
  IN IF n > MAX_SIZE * d
       THEN SetSize(op, clamp(MAX_SIZE * st.width, st.height), clamp(MAX_SIZE, 1))
     ELSE IF n < MIN_SIZE * d
       THEN SetSize(op, clamp(MIN_SIZE * st.width, st.height), clamp(MIN_SIZE, 1))
     ELSE SetSize(op, clamp(newWidth, 1), clamp(n, d))

\* incrementHeight / decrementHeight: newWidth = newHeight / aspectRatio
StepHeight(op, newHeight) ==
  LET n == newHeight * st.width      \* newWidth = n / d
      d == st.height
  IN IF n > MAX_SIZE * d
       THEN SetSize(op, clamp(MAX_SIZE, 1), clamp(MAX_SIZE * st.height, st.width))
     ELSE IF n < MIN_SIZE * d
       THEN SetSize(op, clamp(MIN_SIZE, 1), clamp(MIN_SIZE * st.height, st.width))
     ELSE SetSize(op, clamp(n, d), clamp(newHeight, 1))

incrementWidth == StepWidth("incrementWidth", Min(MAX_SIZE, st.width + STEP_INCHES))

decrementWidth == StepWidth("decrementWidth", Max(MIN_SIZE, st.width - STEP_INCHES))

incrementHeight == StepHeight("incrementHeight", Min(MAX_SIZE, st.height + STEP_INCHES))

decrementHeight == StepHeight("decrementHeight", Max(MIN_SIZE, st.height - STEP_INCHES))

\* the typed value is a number within [MIN_SIZE, MAX_SIZE]
InRange(value) == value >= MIN_SIZE * 10 /\ value <= MAX_SIZE * 10

handleWidthChange ==
  \E value \in TypedValues :
    IF InRange(value)
      THEN SetSize("handleWidthChange", RoundDiv(value, 10), clamp(value * st.height, 10 * st.width))
    ELSE IF value = EmptyText
      THEN SetSize("handleWidthChange", MIN_SIZE, st.height)
    ELSE SetSize("handleWidthChange", st.width, st.height)

handleHeightChange ==
  \E value \in TypedValues :
    IF InRange(value)
      THEN SetSize("handleHeightChange", clamp(value * st.width, 10 * st.height), RoundDiv(value, 10))
    ELSE IF value = EmptyText
      THEN SetSize("handleHeightChange", st.width, MIN_SIZE)
    ELSE SetSize("handleHeightChange", st.width, st.height)

\* ----------------------------------------------------- AddToCartButton
addToCart ==
  /\ mounted /\ TaskCanRun
  /\ lastOp' = "addToCart"
  /\ IF ~isValid(cartImageUrl(st), st.width, st.height, cart.variantId) \/ cart.isLoading
       THEN UNCHANGED <<cart, cartRequests>>
       ELSE /\ Len(cartRequests) < limits.requests
            /\ cart' = [cart EXCEPT !.isLoading = TRUE, !.error = "", !.success = FALSE,
                                    !.outstanding = TRUE]
            /\ cartRequests' = Append(cartRequests,
                 [CustomImage |-> cartImageUrl(st), width |-> st.width, height |-> st.height])
  /\ UNCHANGED <<st, ref, urls, calls, nCalls, pendingReads, mounted, nUploads, limits, lastRead, viewer, panel>>

\* the messages setError can receive: the description of a non-OK answer,
\* the default of line 47, the message of an error thrown by fetch or by
\* response.json() (such an error always carries a message, so the default
\* of line 61 is never used)
ErrorMessages == {"description", "Failed to add to cart", "Failed to fetch"}

\* an answer that is taken for a success whatever it is
CartFails_SetsSuccess ==
  /\ TaskCanRun
  /\ cart.outstanding
  /\ \E msg \in ErrorMessages :
       cart' = IF mounted
                 THEN [cart EXCEPT !.error = msg, !.success = TRUE, !.isLoading = FALSE,
                                   !.outstanding = FALSE]
                 ELSE [cart EXCEPT !.outstanding = FALSE]
  /\ UNCHANGED <<st, ref, urls, calls, nCalls, pendingReads, mounted, nUploads, cartRequests, lastOp, limits, lastRead, viewer, panel>>

\* /cart/add.js answers OK with a JSON body: setSuccess(true), the redirect
\* timer is started, finally clears isLoading
CartSucceeds ==
  /\ TaskCanRun
  /\ cart.outstanding
  /\ cart' = IF mounted
               THEN [cart EXCEPT !.success = TRUE, !.isLoading = FALSE,
                                 !.outstanding = FALSE, !.redirect = "scheduled"]
               ELSE [cart EXCEPT !.outstanding = FALSE, !.redirect = "scheduled"]
  /\ UNCHANGED <<st, ref, urls, calls, nCalls, pendingReads, mounted, nUploads, cartRequests, lastOp, limits, lastRead, viewer, panel>>

\* /cart/add.js answers non-OK (with or without a description), fetch throws,
\* or the body of an OK answer is no JSON: catch sets the error, finally
\* clears isLoading
CartFails ==
  /\ TaskCanRun
  /\ cart.outstanding
  /\ \E msg \in ErrorMessages :
       cart' = IF mounted
                 THEN [cart EXCEPT !.error = msg, !.isLoading = FALSE, !.outstanding = FALSE]
                 ELSE [cart EXCEPT !.outstanding = FALSE]
  /\ UNCHANGED <<st, ref, urls, calls, nCalls, pendingReads, mounted, nUploads, cartRequests, lastOp, limits, lastRead, viewer, panel>>

\* the timer of line 57 fires: window.location.href = "/cart", the page and
\* the component with it are left
Redirect ==
  /\ mounted /\ TaskCanRun
  /\ cart.redirect = "scheduled"
  /\ mounted' = FALSE
  /\ UNCHANGED <<st, ref, urls, calls, nCalls, pendingReads, nUploads, cart, cartRequests, lastOp, limits, lastRead, viewer, panel>>

\* --------------------------------------------------------- DesignViewer
\* The objects of a fabric canvas: the garment image produced by the base
\* load of canvas generation id, the logo produced by the load of request id.
BaseObject(id) == [kind |-> "base", id |-> id, url |-> 0]
LogoObject(id, url) == [kind |-> "logo", id |-> id, url |-> url]

\* canvas.getObjects().forEach(obj => obj !== baseImg && canvas.remove(obj))
RemoveAllButBase(v, idx) == v.objects[idx] \cap {BaseObject(v.baseImagesRef[idx])}

\* placeOrReplaceLogoOnCanvas(idx, url, requestId) up to Image.fromURL(...)
placeOrReplaceLogoOnCanvas(v, idx, url, requestId) ==
  IF v.fabricCanvasesRef[idx] = 0 \/ v.baseImagesRef[idx] = 0
    THEN v
    ELSE [v EXCEPT !.objects[idx] = RemoveAllButBase(v, idx),
                   !.loads = @ \cup {[kind |-> "logo", idx |-> idx, url |-> url, id |-> requestId,
                                       canvas |-> v.fabricCanvasesRef[idx]]}]

\* products.forEach((_, idx) => placeOrReplaceLogoOnCanvas(idx, imageUrl, requestId))
RECURSIVE PlaceOnAll(_, _, _, _)
PlaceOnAll(v, idx, url, requestId) ==
  IF idx > NumProducts THEN v
  ELSE PlaceOnAll(placeOrReplaceLogoOnCanvas(v, idx, url, requestId), idx + 1, url, requestId)

\* the else branch of the imageUrl effect: clear all logos
ClearLogos(v) ==
  [v EXCEPT !.objects = [idx \in Products |->
                           IF v.fabricCanvasesRef[idx] = 0 THEN v.objects[idx]
                           ELSE RemoveAllButBase(v, idx)]]

\* the imageUrl prop changes to url and the effect on [imageUrl, ...] runs
SetImageUrl(url) ==
  /\ url # viewer.imageUrl
  /\ viewer.changes < MaxPropChanges
  /\ LET v == [viewer EXCEPT !.imageUrl = url, !.prevImageUrlRef = url,
                              !.logoRequestIdRef = @ + 1, !.changes = @ + 1]
     IN viewer' = IF url # 0 THEN PlaceOnAll(v, 1, url, v.logoRequestIdRef)
                  ELSE ClearLogos(v)
  /\ UNCHANGED <<st, ref, urls, calls, nCalls, pendingReads, mounted, nUploads, cart, cartRequests, lastOp, limits, lastRead, panel>>

\* the products prop changes: the cleanup of the canvas effect disposes the
\* canvases and empties the refs, the effect requests a new animation frame;
\* the imageUrl effect runs again and returns at once (the URL has not changed)
ProductsChange ==
  /\ viewer.changes < MaxPropChanges
  /\ viewer' = [viewer EXCEPT !.generation = @ + 1, !.changes = @ + 1,
                              !.frame = viewer.generation + 1,
                              !.fabricCanvasesRef = [idx \in Products |-> 0],
                              !.baseImagesRef = [idx \in Products |-> 0],
                              !.objects = [idx \in Products |-> {}]]
  /\ UNCHANGED <<st, ref, urls, calls, nCalls, pendingReads, mounted, nUploads, cart, cartRequests, lastOp, limits, lastRead, panel>>

\* the requested animation frame: a canvas per product, its garment image requested
AnimationFrame ==
  /\ viewer.frame # 0
  /\ viewer' = [viewer EXCEPT !.frame = 0,
                              !.fabricCanvasesRef = [idx \in Products |-> viewer.frame],
                              !.loads = @ \cup {[kind |-> "base", idx |-> idx, url |-> 0,
                                                  id |-> viewer.frame, canvas |-> viewer.frame]
                                                 : idx \in Products}]
  /\ UNCHANGED <<st, ref, urls, calls, nCalls, pendingReads, mounted, nUploads, cart, cartRequests, lastOp, limits, lastRead, panel>>

\* canvas.add(obj) on the canvas the load was started for: it shows on a
\* preview canvas when that canvas is still the one in fabricCanvasesRef
AddTo(v, l, obj) ==
  IF v.fabricCanvasesRef[l.idx] = l.canvas THEN v.objects[l.idx] \cup {obj} ELSE v.objects[l.idx]

\* Image.fromURL(product.src).then(...) of the canvas effect
BaseLoaded(l) ==
  /\ l \in viewer.loads /\ l.kind = "base"
  /\ viewer' = [viewer EXCEPT !.loads = @ \ {l},
                              !.baseImagesRef[l.idx] = l.id,
                              !.objects[l.idx] = AddTo(viewer, l, BaseObject(l.id))]
  /\ UNCHANGED <<st, ref, urls, calls, nCalls, pendingReads, mounted, nUploads, cart, cartRequests, lastOp, limits, lastRead, panel>>

\* the .then of placeOrReplaceLogoOnCanvas without the comparison of request ids
LogoLoaded_NoCheck(l) ==
  /\ l \in viewer.loads /\ l.kind = "logo"
  /\ viewer' = [viewer EXCEPT !.loads = @ \ {l},
                              !.objects[l.idx] = AddTo(viewer, l, LogoObject(l.id, l.url))]
  /\ UNCHANGED <<st, ref, urls, calls, nCalls, pendingReads, mounted, nUploads, cart, cartRequests, lastOp, limits, lastRead, panel>>

\* Image.fromURL(url).then(...) of placeOrReplaceLogoOnCanvas
LogoLoaded(l) ==
  /\ l \in viewer.loads /\ l.kind = "logo"
  /\ viewer' = IF l.id # viewer.logoRequestIdRef
                 THEN [viewer EXCEPT !.loads = @ \ {l}, !.ignored = TRUE]
                 ELSE [viewer EXCEPT !.loads = @ \ {l},
                                     !.objects[l.idx] = AddTo(viewer, l, LogoObject(l.id, l.url))]
  /\ UNCHANGED <<st, ref, urls, calls, nCalls, pendingReads, mounted, nUploads, cart, cartRequests, lastOp, limits, lastRead, panel>>

\* Image.fromURL rejects: neither .then runs
LoadFails(l) ==
  /\ l \in viewer.loads
  /\ viewer' = [viewer EXCEPT !.loads = @ \ {l}]
  /\ UNCHANGED <<st, ref, urls, calls, nCalls, pendingReads, mounted, nUploads, cart, cartRequests, lastOp, limits, lastRead, panel>>

\* ---------------------------------------------------------- UploadPanel
\* const isAnyLoading = loadingRemoveBg || loadingEnhance
isAnyLoading == st.loadingRemoveBg \/ st.loadingEnhance

\* a user can reach the controls of the panel: the crop modal, an overlay, is closed
PanelReachable == mounted /\ TaskCanRun /\ ~panel.showCropModal

\* URL.revokeObjectURL(pendingUpload.url) when pendingUpload?.url is a blob: URL
releasePending(handles, pending) ==
  IF pending = 0 THEN handles ELSE [handles EXCEPT ![pending] = @ + 1]

\* const url = URL.createObjectURL(file); setPendingUpload({ url, file }); setShowCropModal(true)
OpenCrop ==
  /\ Len(panel.handles) < MaxSelections
  /\ panel' = [panel EXCEPT !.handles = Append(@, 0),
                            !.pendingUpload = Len(panel.handles) + 1,
                            !.showCropModal = TRUE]
  /\ UNCHANGED <<st, ref, urls, calls, nCalls, pendingReads, mounted, nUploads, cart, cartRequests, lastOp, limits, lastRead, viewer>>

\* handleFileChange: a file is chosen in the picker opened by handleClick, from
\* the drop zone (no image) or from Upload Different Image (disabled while loading)
handleFileChange ==
  /\ PanelReachable
  /\ Truthy(st.imageUrl) => ~isAnyLoading
  /\ OpenCrop

\* handleDrop of an image file on the drop zone, rendered when there is no image
handleDrop ==
  /\ PanelReachable
  /\ ~Truthy(st.imageUrl)
  /\ OpenCrop

\* ImageCropModal.handleApply up to its await getCroppedImg(...): Done is
\* disabled while this modal is applying; onApply is the handleCropApply of
\* the render the click happened in, with its pendingUpload (a getCroppedImg
\* that rejects is logged and leaves the modal as it was before the click)
handleApply ==
  /\ mounted /\ TaskCanRun /\ panel.showCropModal
  /\ \A c \in panel.crops : c.pendingUpload # panel.pendingUpload
  /\ panel' = [panel EXCEPT !.crops = @ \cup {[pendingUpload |-> panel.pendingUpload]}]
  /\ UNCHANGED <<st, ref, urls, calls, nCalls, pendingReads, mounted, nUploads, cart, cartRequests, lastOp, limits, lastRead, viewer>>

\* canvas.toBlob answers: handleApply resumes and calls onApply(url, file),
\* that is handleCropApply(finalUrl, finalFile), which ends with onUpload
handleCropApply(c) ==
  /\ c \in panel.crops
  /\ panel' = [panel EXCEPT !.crops = @ \ {c},
                            !.handles = releasePending(@, c.pendingUpload),
                            !.pendingUpload = 0,
                            !.showCropModal = FALSE]
  /\ Upload(FALSE, FALSE)

\* handleCropCancel: the close and Cancel buttons of the modal, never disabled
handleCropCancel ==
  /\ mounted /\ TaskCanRun /\ panel.showCropModal
  /\ panel' = [panel EXCEPT !.handles = releasePending(@, panel.pendingUpload),
                            !.pendingUpload = 0,
                            !.showCropModal = FALSE]
  /\ UNCHANGED <<st, ref, urls, calls, nCalls, pendingReads, mounted, nUploads, cart, cartRequests, lastOp, limits, lastRead, viewer>>

\* the toggle button: onClick={() => onToggleRemoveBg(!removeBgEnabled)},
\* disabled={loadingRemoveBg || loadingEnhance}
ToggleClicked ==
  /\ PanelReachable /\ ~isAnyLoading
  /\ handleToggleRemoveBg(~st.removeBgEnabled)

\* the Enhance button, rendered with an image: onClick={onEnhance}, disabled={isAnyLoading}
EnhanceClicked ==
  /\ PanelReachable /\ Truthy(st.imageUrl) /\ ~isAnyLoading
  /\ handleEnhance

\* the Remove button: onClick={onClear}, disabled={isAnyLoading}
RemoveClicked ==
  /\ PanelReachable /\ Truthy(st.imageUrl) /\ ~isAnyLoading
  /\ handleClearDesign

\* Stop of the UploadLoader, rendered over the image while isAnyLoading
StopClicked ==
  /\ PanelReachable /\ Truthy(st.imageUrl) /\ isAnyLoading
  /\ handleCancelProcessing

\* ---------------------------------------------------------- next state
\* The session controller and its remote calls.  An image-decode read writes
\* width and height only, which no action below reads: here the reads stay
\* pending, and SpecDims completes them.
Next ==
  \/ handleImageUpload
  \/ handleCancelProcessing
  \/ handleRemoveBg
  \/ handleEnhance
  \/ handleClearDesign
  \/ \E enabled \in BOOLEAN : handleToggleRemoveBg(enabled)
  \/ Unmount
  \/ \E c \in calls : FetchResolves(c)
  \/ \E c \in calls : CallFails(c)
  \/ \E c \in calls : AbortRejection(c)
  \/ \E c \in calls : BodyArrives(c)

Spec == Init /\ [][Next]_vars

\* The same with the image-decode reads completing, at most MaxPendingReads
\* image loads at a time, over sessions of at most MaxDimsUploads uploads and
\* MaxDimsCalls remote calls, MaxDimsWork of them together.
InitDims ==
  /\ Init!1 /\ Init!2 /\ Init!3 /\ Init!4 /\ Init!5 /\ Init!6 /\ Init!7 /\ Init!8
  /\ Init!9 /\ Init!10 /\ Init!11
  /\ limits = [uploads |-> MaxDimsUploads, calls |-> MaxDimsCalls, work |-> MaxDimsWork, sizeOps |-> 0,
               requests |-> 0]
  /\ lastRead = 0
  /\ Init!14 /\ Init!15

NextDims ==
  \/ Next /\ ReadsBounded(pendingReads')
  \/ \E r \in pendingReads : ReadResolves(r)
  \/ \E r \in pendingReads : ReadRejects(r)

SpecDims == InitDims /\ [][NextDims]_vars

\* The same with the AddToCartButton it renders, for either variantId prop,
\* over sessions of at most MaxCartUploads uploads, MaxCartCalls remote calls
\* and MaxCartRequests cart requests, MaxCartWork of them together.
InitCart ==
  /\ Init!1 /\ Init!2 /\ Init!3 /\ Init!4 /\ Init!5 /\ Init!6 /\ Init!7 /\ Init!8
  /\ cart \in { [variantId |-> v, isLoading |-> FALSE, error |-> "", success |-> FALSE,
                  outstanding |-> FALSE, redirect |-> "none"] : v \in {0, 1} }
  /\ cartRequests = <<>>
  /\ lastOp = "init"
  /\ limits = [uploads |-> MaxUploads, calls |-> MaxCalls, work |-> MaxWork, sizeOps |-> 0,
               requests |-> MaxCartRequests]
  /\ lastRead = 0
  /\ Init!14 /\ Init!15

NextCart ==
  \/ Next /\ nUploads' <= MaxCartUploads /\ nCalls' <= MaxCartCalls
          /\ nUploads' + nCalls' + Len(cartRequests) <= MaxCartWork
  \/ addToCart /\ nUploads + nCalls + Len(cartRequests') <= MaxCartWork
  \/ CartSucceeds
  \/ CartFails
  \/ Redirect

SpecCart == InitCart /\ [][NextCart]_vars

\* The session controller over longer sessions on fewer images: at most
\* MaxReprocessUploads uploads and MaxReprocessCalls remote calls.
InitReprocess ==
  /\ Init!1 /\ Init!2 /\ Init!3 /\ Init!4 /\ Init!5 /\ Init!6 /\ Init!7 /\ Init!8
  /\ Init!9 /\ Init!10 /\ Init!11
  /\ limits = [uploads |-> MaxReprocessUploads, calls |-> MaxReprocessCalls,
               work |-> MaxReprocessUploads + MaxReprocessCalls, sizeOps |-> 0,
               requests |-> 0]
  /\ lastRead = 0
  /\ Init!14 /\ Init!15

SpecReprocess == InitReprocess /\ [][Next]_vars

\* SizeControls and the part of the session that writes width and height:
\* uploads with auto-processing switched off and their dimension reads, over
\* sessions of at most MaxSizeUploads uploads and MaxSizeOps size-control
\* actions.  No remote call is started here: no step of a remote call writes
\* width or height.
InitSize ==
  /\ Init!1 /\ Init!2 /\ Init!3 /\ Init!4 /\ Init!5 /\ Init!6 /\ Init!7 /\ Init!8
  /\ Init!9 /\ Init!10 /\ Init!11
  /\ limits = [uploads |-> MaxSizeUploads, calls |-> 0, work |-> MaxSizeUploads,
               sizeOps |-> MaxSizeOps, requests |-> 0]
  /\ lastRead = 0
  /\ Init!14 /\ Init!15

NextSize ==
  \/ handleImageUpload
  \/ handleClearDesign
  \/ \E enabled \in BOOLEAN : handleToggleRemoveBg(enabled)
  \/ Unmount
  \/ \E r \in pendingReads : ReadResolves(r)
  \/ \E r \in pendingReads : ReadRejects(r)
  \/ selectPredefined
  \/ incrementWidth
  \/ decrementWidth
  \/ incrementHeight
  \/ decrementHeight
  \/ handleWidthChange
  \/ handleHeightChange

SpecSize == InitSize /\ [][NextSize]_vars

\* The session controller on a platform whose URL.revokeObjectURL can throw.
UploadReleaseThrows ==
  \E throwsOriginal, throwsProcessed \in BOOLEAN :
    /\ \/ Throws(ref.originalBlobUrlRef, throwsOriginal)
       \/ Throws(ref.processedBlobUrlRef, throwsProcessed)
    /\ Upload(throwsOriginal, throwsProcessed)
    /\ UNCHANGED panel

ClearReleaseThrows ==
  \E throwsOriginal, throwsProcessed \in BOOLEAN :
    /\ \/ Throws(ref.originalBlobUrlRef, throwsOriginal)
       \/ Throws(ref.processedBlobUrlRef, throwsProcessed)
    /\ ClearDesign(throwsOriginal, throwsProcessed)

ResumeReleaseThrows(c) ==
  \E throwsProcessed, throwsCurrent \in BOOLEAN :
    /\ c.handler \in {"handleRemoveBg", "handleEnhance"}
    /\ \/ Throws(ref.processedBlobUrlRef, throwsProcessed)
       \/ Throws(ref.currentBlobUrlRef, throwsCurrent)
    /\ Resume(c, throwsProcessed, throwsCurrent)

NextRelease ==
  \/ Next
  \/ UploadReleaseThrows
  \/ ClearReleaseThrows
  \/ \E c \in calls : ResumeReleaseThrows(c)

SpecRelease == Init /\ [][NextRelease]_vars

\* The session controller when every pending await of a remote call is
\* eventually resumed (the fetch resolves or rejects, the body arrives or
\* fails, an aborted await rejects), over sessions of at most MaxLiveUploads
\* uploads and MaxLiveCalls remote calls, MaxLiveWork of them together.
InitLive ==
  /\ Init!1 /\ Init!2 /\ Init!3 /\ Init!4 /\ Init!5 /\ Init!6 /\ Init!7 /\ Init!8
  /\ Init!9 /\ Init!10 /\ Init!11
  /\ limits = [uploads |-> MaxLiveUploads, calls |-> MaxLiveCalls, work |-> MaxLiveWork, sizeOps |-> 0,
               requests |-> 0]
  /\ lastRead = 0
  /\ Init!14 /\ Init!15

AwaitResumes ==
  \E c \in calls : FetchResolves(c) \/ CallFails(c) \/ AbortRejection(c) \/ BodyArrives(c)

SpecLive == InitLive /\ [][Next]_vars /\ WF_vars(AwaitResumes)

\* The session controller with the AddToCartButton it renders, over sessions
\* of at most MaxSubmitUploads uploads, MaxSubmitCalls remote calls and
\* MaxSubmitRequests cart requests, MaxSubmitWork of them together.
InitSubmit ==
  /\ Init!1 /\ Init!2 /\ Init!3 /\ Init!4 /\ Init!5 /\ Init!6 /\ Init!7 /\ Init!8
  /\ Init!9 /\ Init!10 /\ Init!11
  /\ limits = [uploads |-> MaxSubmitUploads, calls |-> MaxSubmitCalls,
               work |-> MaxSubmitUploads + MaxSubmitCalls, sizeOps |-> 0,
               requests |-> MaxSubmitRequests]
  /\ lastRead = 0
  /\ Init!14 /\ Init!15

NextSubmit ==
  \/ Next /\ nUploads' + nCalls' + Len(cartRequests) <= MaxSubmitWork
  \/ addToCart /\ nUploads + nCalls + Len(cartRequests') <= MaxSubmitWork
  \/ CartSucceeds
  \/ CartFails
  \/ Redirect

SpecSubmit == InitSubmit /\ [][NextSubmit]_vars


\* DesignViewer alone: its imageUrl and products props change at most
\* MaxPropChanges times, among MaxViewerUrls images.
ImageLoads ==
  \/ AnimationFrame
  \/ \E l \in viewer.loads : BaseLoaded(l)
  \/ \E l \in viewer.loads : LogoLoaded(l)

PropsChange ==
  \/ \E url \in 0 .. MaxViewerUrls : SetImageUrl(url)
  \/ ProductsChange

NextViewer ==
  \/ PropsChange
  \/ ImageLoads
  \/ \E l \in viewer.loads : LoadFails(l)

SpecViewer == Init /\ [][NextViewer]_vars

\* The same when every image load completes: each requested animation frame
\* runs and each Image.fromURL resolves.
NextViewerLive ==
  \/ PropsChange
  \/ ImageLoads

SpecViewerLive ==
  /\ Init /\ [][NextViewerLive]_vars
  /\ WF_vars(AnimationFrame)
  /\ WF_vars(\E l \in viewer.loads : BaseLoaded(l))
  /\ WF_vars(\E l \in viewer.loads : LogoLoaded(l))


\* The session controller driven through the controls of UploadPanel, over
\* sessions of at most MaxSelections selected or dropped files,
\* MaxPanelUploads uploads and MaxPanelCalls remote calls.
InitPanel ==
  /\ Init!1 /\ Init!2 /\ Init!3 /\ Init!4 /\ Init!5 /\ Init!6 /\ Init!7 /\ Init!8
  /\ Init!9 /\ Init!10 /\ Init!11
  /\ limits = [uploads |-> MaxPanelUploads, calls |-> MaxPanelCalls,
               work |-> MaxPanelUploads + MaxPanelCalls, sizeOps |-> 0, requests |-> 0]
  /\ lastRead = 0
  /\ Init!14 /\ Init!15

NextPanel ==
  \/ handleDrop
  \/ handleFileChange
  \/ handleApply
  \/ \E c \in panel.crops : handleCropApply(c)
  \/ handleCropCancel
  \/ ToggleClicked
  \/ EnhanceClicked
  \/ RemoveClicked
  \/ StopClicked
  \/ Unmount
  \/ \E c \in calls : FetchResolves(c)
  \/ \E c \in calls : CallFails(c)
  \/ \E c \in calls : AbortRejection(c)
  \/ \E c \in calls : BodyArrives(c)

SpecPanel == InitPanel /\ [][NextPanel]_vars


\* ================================================================ claims
Released(u) == urls[u.n].revokes > 0

\* the empty session: nothing displayed, no artifacts, no remote handles
EmptySession ==
  /\ st.imageUrl = NullUrl
  /\ st.currentImageBlob = NoBlob
  /\ st.originalImageBlob = NoBlob /\ st.originalImageUrl = NullUrl
  /\ st.processedImageBlob = NoBlob /\ st.processedImageUrl = NullUrl
  /\ st.originalServerUrl = NullUrl /\ st.processedServerUrl = NullUrl
  /\ cartImageUrl(st) = NullUrl

\* C1: at most one remote call is live (started, not settled, not aborted) at
\* any time, and every call but the one started last (the one whose controller
\* abortControllerRef holds) has been aborted.
C1_SingleLiveCall ==
  /\ Cardinality({c \in calls : ~c.aborted}) <= 1
  /\ \A c \in calls : ~c.aborted => c.id = ref.abortControllerRef /\ c.id = nCalls

\* C1 witness: a newer call is live while the call it superseded, aborted, has
\* not settled yet.
C1_Witness ==
  \E c \in calls, d \in calls : c.aborted /\ ~d.aborted /\ c.id < d.id

\* C2: whatever happens to a call that a newer call has superseded (here: its
\* rejection with AbortError, the only thing that can) changes no session
\* state: React state (artifacts, display, remote handles, dimensions,
\* in-flight status), refs and object URLs stay as they are.
C2_SupersededCallChangesNothing ==
  [][ (\E c \in calls : /\ c.id < nCalls
                        /\ \A d \in calls' : d.id # c.id)
        => (st' = st /\ ref' = ref /\ urls' = urls) ]_vars

\* C3: the cart handle is null or the remote handle of the artifact on display:
\* the processed remote handle only while the processed artifact is displayed,
\* the original's only while the original is displayed.
C3_CartHandleMatchesDisplay ==
  mounted =>
    \/ cartImageUrl(st) = NullUrl
    \/ /\ cartImageUrl(st) = st.processedServerUrl
       /\ st.imageUrl # NullUrl /\ st.imageUrl = st.processedImageUrl
       /\ st.imageUrl # st.originalImageUrl
    \/ /\ cartImageUrl(st) = st.originalServerUrl
       /\ st.imageUrl # NullUrl /\ st.imageUrl = st.originalImageUrl
       /\ st.imageUrl # st.processedImageUrl

\* C4: no object URL is revoked more than once.
C4_NoDoubleRelease ==
  \A k \in DOMAIN urls : urls[k].revokes <= 1

\* C5: while mounted, the displayed URL and the URLs stored for the original
\* and the processed artifact have not been revoked.
C5_NoUseAfterRelease ==
  mounted =>
    \A u \in {st.imageUrl, st.originalImageUrl, st.processedImageUrl} :
      Truthy(u) => ~Released(u)

\* C6: when the last operation was Clear or the unmount and every remote call
\* has settled, every object URL created so far has been revoked.
C6_AllReleasedAfterClearOrTeardown ==
  (lastOp \in {"handleClearDesign", "unmount"} /\ calls = {})
    => \A k \in DOMAIN urls : urls[k].revokes >= 1

\* C7: the cart handle is null or a server URL built from a response header,
\* never a blob: URL, and no request sent to the cart carries a blob: URL.
C7_CartHandleNeverBlob ==
  /\ cartImageUrl(st) = NullUrl \/ cartImageUrl(st).scheme = "https:"
  /\ \A i \in DOMAIN cartRequests : cartRequests[i].CustomImage.scheme = "https:"

\* C7 witness: a cart request has been sent while a blob: URL is on display.
C7_Witness ==
  /\ Len(cartRequests) > 0
  /\ startsWithBlob(st.imageUrl)
  /\ cartImageUrl(st) # NullUrl

CartPermitted == Truthy(cartImageUrl(st)) /\ st.width > 0 /\ st.height > 0

\* C8: a cart request is sent only from a state whose cart handle is non-null
\* and whose width and height are positive; addToCart invoked in any other
\* state sends nothing and changes no state.
C8_CartOnlyWhenPermitted ==
  [][ /\ cartRequests' # cartRequests => CartPermitted
      /\ (addToCart /\ ~CartPermitted)
           => UNCHANGED <<st, ref, urls, calls, nCalls, pendingReads, cart, cartRequests>> ]_vars

\* C8 witness: addToCart has sent a request from a permitted state.
C8_Witness ==
  /\ lastOp = "addToCart" /\ cart.isLoading
  /\ Len(cartRequests) = 1
  /\ CartPermitted /\ cartRequests[1].CustomImage = cartImageUrl(st)

\* C9: after Clear, and until the next operation, the session stays empty
\* whatever the remote calls started before it do.
C9_ClearedSessionStaysEmpty ==
  (mounted /\ lastOp = "handleClearDesign") => EmptySession

\* C10: a Clear step ends in the empty initial state, with no operation
\* reported in flight.
C10_ClearResetsToInitial ==
  [][ handleClearDesign
        => (EmptySession /\ ~st.loadingRemoveBg /\ ~st.loadingEnhance)' ]_vars

\* the artifacts, the display and the remote handles of a session state
Artifacts(s) ==
  [ original |-> <<s.originalImageBlob, s.originalImageUrl>>,
    processed |-> <<s.processedImageBlob, s.processedImageUrl>>,
    displayed |-> <<s.currentImageBlob, s.imageUrl>>,
    originalServerUrl |-> s.originalServerUrl,
    processedServerUrl |-> s.processedServerUrl ]

\* C11: a call that ends cancelled (its AbortError rejection runs) has changed
\* neither the original, the processed artifact, the display nor a remote
\* handle since it was started, whether it was cancelled before or after its
\* response headers arrived, and it revokes no object URL.
C11_CancelledCallLeavesNoTrace ==
  [][ \A c \in calls :
        (c.aborted /\ c \notin calls')
          => /\ ~c.wrote
             /\ Artifacts(st') = Artifacts(st)
             /\ urls' = urls ]_vars

\* C12: a call that fails with an error other than a cancellation, at whatever
\* point (request or body), has changed neither the artifacts, the display
\* nor a remote handle since it was started, and the cart handle after the
\* failure is what these give: no half-updated state.
C12_FailedCallLeavesNoTrace ==
  [][ \A c \in calls :
        CallFails(c)
          => /\ ~c.wrote
             /\ Artifacts(st') = Artifacts(st)
             /\ cartImageUrl(st') = cartImageUrl(st)
             /\ urls' = urls ]_vars

\* C13: when the background-removal call started by an upload fails (it
\* rejects, or its response has a non-2xx status) while that upload is still
\* the session's original, the original is on display afterwards and no
\* processed artifact is stored.
C13_FailedAutoProcessKeepsOriginal ==
  [][ \A c \in calls :
        ( /\ c.handler = "handleImageUpload" /\ st.originalImageBlob = c.input
          /\ CallFails(c) \/ (BodyArrives(c) /\ ~c.ok) )
          => /\ Truthy(st'.imageUrl) /\ st'.imageUrl = st'.originalImageUrl
             /\ st'.currentImageBlob = c.input
             /\ st'.originalImageBlob = c.input
             /\ ~HasBlob(st'.processedImageBlob)
             /\ st'.processedImageUrl = NullUrl ]_vars

\* C14: the body of a response with a non-2xx status, or of one without the
\* link header of the processed image, is not stored as the processed
\* artifact and does not replace what is displayed.
C14_BadResponseIsAnError ==
  [][ \A c \in calls :
        (BodyArrives(c) /\ (~c.ok \/ c.processedUrl = NullUrl))
          => /\ Artifacts(st').processed = Artifacts(st).processed
             /\ Artifacts(st').displayed = Artifacts(st).displayed ]_vars

\* C15: when a processed artifact is stored and the toggle is off, switching
\* the toggle on starts no remote call and puts the stored processed artifact
\* on display.
C15_ToggleOnReusesProcessed ==
  [][ (handleToggleRemoveBg(TRUE) /\ ~st.removeBgEnabled /\ HasBlob(st.processedImageBlob))
        => /\ calls' = calls /\ nCalls' = nCalls
           /\ st'.removeBgEnabled
           /\ Artifacts(st').processed = Artifacts(st).processed
           /\ Artifacts(st').displayed = Artifacts(st).processed
           /\ Truthy(st'.imageUrl) /\ ~Released(st'.imageUrl) ]_vars

\* C15 witness: the toggle was switched on after an image uploaded with the
\* toggle off had been enhanced (one upload, one call): the enhanced image is
\* displayed and no call has been started.
C15_Witness ==
  /\ lastOp = "handleToggleRemoveBg" /\ st.removeBgEnabled
  /\ nUploads = 1 /\ nCalls = 1 /\ calls = {}
  /\ st.processedImageBlob = Process("enhance", st.originalImageBlob)
  /\ HasBlob(st.originalImageBlob)
  /\ st.imageUrl = st.processedImageUrl /\ Truthy(st.imageUrl)

\* an upload with auto-process has just succeeded, its response carrying both
\* link headers, and nothing has been done since
AutoProcessed ==
  /\ mounted /\ lastOp = "handleImageUpload" /\ st.removeBgEnabled /\ calls = {}
  /\ HasBlob(st.processedImageBlob)
  /\ Truthy(st.processedServerUrl) /\ Truthy(st.originalServerUrl)

\* C16: after an upload with auto-process has succeeded with processed handle
\* R1 and original handle R0, the cart handle is R1 and the processed image is
\* displayed; switching the toggle off starts no call, makes the cart handle
\* R0 and displays the original; switching it on again starts no call, makes
\* the cart handle R1 and restores the state from before the pair.
C16_ToggleRoundTrip ==
  [][ (AutoProcessed /\ handleToggleRemoveBg(FALSE))
        => LET R1 == buildServerUrl(Link(TRUE, st.processedImageBlob))
               R0 == buildServerUrl(Link(TRUE, st.originalImageBlob))
               on == ToggleState(st', TRUE)
           IN /\ cartImageUrl(st) = R1
              /\ Artifacts(st).displayed = Artifacts(st).processed
              /\ calls' = calls /\ nCalls' = nCalls
              /\ cartImageUrl(st') = R0
              /\ Artifacts(st').displayed = Artifacts(st).original
              /\ ~Released(st'.imageUrl)
              /\ ToggleBranch(st', TRUE) = "processed"
              /\ cartImageUrl(on) = R1
              /\ on = st ]_vars

\* C16 witness: the toggle has been switched off right after a successful
\* upload with auto-process; the original is displayed, the cart handle is R0.
C16_Witness ==
  /\ mounted /\ lastOp = "handleToggleRemoveBg" /\ ~st.removeBgEnabled
  /\ nUploads = 1 /\ nCalls = 1 /\ calls = {}
  /\ \A k \in DOMAIN urls : urls[k].revokes = 0
  /\ st.processedImageBlob = Process("remove-bg", st.originalImageBlob)
  /\ Truthy(st.processedServerUrl)
  /\ Truthy(st.originalServerUrl) /\ cartImageUrl(st) = st.originalServerUrl
  /\ st.imageUrl = st.originalImageUrl /\ Truthy(st.imageUrl)

\* C17: when handleImageUpload returns from its synchronous part, the original
\* is the uploaded file under a new, unrevoked object URL, no processed
\* artifact is stored, the original is displayed, both remote handles and the
\* cart handle are null, and the object URLs of the previous original and of
\* the previous processed artifact have been revoked.
C17_UploadStartsFresh ==
  [][ handleImageUpload
        => LET file == [file |-> nUploads + 1, ops |-> <<>>]
               url == st'.imageUrl
           IN /\ startsWithBlob(url) /\ url.n > Len(urls)
              /\ urls'[url.n] = [blob |-> file, revokes |-> 0]
              /\ Artifacts(st').original = <<file, url>>
              /\ Artifacts(st').processed = <<NoBlob, NullUrl>>
              /\ Artifacts(st').displayed = <<file, url>>
              /\ st'.originalServerUrl = NullUrl /\ st'.processedServerUrl = NullUrl
              /\ cartImageUrl(st') = NullUrl
              /\ \A old \in {st.originalImageUrl, st.processedImageUrl} :
                   Truthy(old) => urls'[old.n].revokes > 0 ]_vars

\* C17 witness: a second upload has replaced an original and a processed
\* artifact, whose object URLs (the first and the second created) are revoked.
C17_Witness ==
  /\ mounted /\ lastOp = "handleImageUpload" /\ nUploads = 2
  /\ Len(urls) = 3 /\ st.imageUrl = BlobUrl(3)
  /\ urls[1].blob.ops = <<>> /\ urls[1].revokes = 1
  /\ urls[2].blob.ops # <<>> /\ urls[2].revokes = 1
  /\ ~HasBlob(st.processedImageBlob)

\* C18: when a remove-bg call succeeds (a 2xx response with the link header of
\* the processed image, body read), its result is stored as the processed
\* artifact under a new object URL, the object URL of the processed artifact
\* stored before (if any) has been revoked, the new artifact is displayed, and
\* the processed remote handle is the one that response returned.
C18_RemoveBgSuccessStoresResult ==
  [][ \A c \in calls :
        (mounted /\ BodyArrives(c) /\ c.op = "remove-bg" /\ c.ok /\ Truthy(c.processedUrl))
          => LET url == st'.processedImageUrl
             IN /\ startsWithBlob(url) /\ url.n > Len(urls)
                /\ urls'[url.n] = [blob |-> Process(c.op, c.input), revokes |-> 0]
                /\ Artifacts(st').processed = <<Process(c.op, c.input), url>>
                /\ Artifacts(st').displayed = Artifacts(st').processed
                /\ Truthy(st.processedImageUrl) => urls'[st.processedImageUrl.n].revokes > 0
                /\ st'.processedServerUrl = c.processedUrl ]_vars

\* C19: a remote call that fails with an error other than a cancellation
\* leaves a record of the failure in the state the UI reads (something other
\* than the in-flight status of its operation changes), and a cancellation
\* leaves none.
C19_FailureIsRecorded ==
  [][ \A c \in calls :
        /\ (mounted /\ CallFails(c))
             => st' # [st EXCEPT ![LoadingFlag(c.handler)] = FALSE]
        /\ (mounted /\ AbortRejection(c))
             => st' = [st EXCEPT ![LoadingFlag(c.handler)] = FALSE] ]_vars

\* C20: switching the toggle off while the processed artifact is displayed and
\* an original is stored starts no remote call, displays the stored original
\* (under an object URL that has not been revoked) and makes the cart handle
\* the remote handle of the original, or null when none is known.
C20_ToggleOffShowsOriginal ==
  [][ ( /\ handleToggleRemoveBg(FALSE)
        /\ HasBlob(st.processedImageBlob)
        /\ Artifacts(st).displayed = Artifacts(st).processed
        /\ HasBlob(st.originalImageBlob) )
        => /\ calls' = calls /\ nCalls' = nCalls
           /\ Artifacts(st').original = Artifacts(st).original
           /\ Artifacts(st').displayed = Artifacts(st).original
           /\ Truthy(st'.imageUrl) /\ urls'[st'.imageUrl.n].revokes = 0
           /\ cartImageUrl(st') = st.originalServerUrl
           /\ cartImageUrl(st') \in {NullUrl, buildServerUrl(Link(TRUE, st.originalImageBlob))} ]_vars

NoImage(s) ==
  /\ Artifacts(s).original = <<NoBlob, NullUrl>>
  /\ Artifacts(s).processed = <<NoBlob, NullUrl>>
  /\ Artifacts(s).displayed = <<NoBlob, NullUrl>>

\* C22: switching the toggle on while no image at all is stored starts no
\* remote call, cancels none, and changes no artifact, displayed URL, remote
\* handle, ref or object URL.
C22_ToggleOnWithoutImageIsNoOp ==
  [][ (handleToggleRemoveBg(TRUE) /\ NoImage(st))
        => /\ calls' = calls /\ nCalls' = nCalls
           /\ Artifacts(st') = Artifacts(st)
           /\ st' = [st EXCEPT !.removeBgEnabled = TRUE]
           /\ ref' = ref /\ urls' = urls ]_vars

\* C22 witness: the toggle has been switched on in a session without image.
C22_Witness ==
  /\ mounted /\ lastOp = "handleToggleRemoveBg" /\ st.removeBgEnabled
  /\ NoImage(st) /\ calls = {} /\ nCalls = 0

InFlight(op) == \E c \in calls : Live(c) /\ c.op = op

\* C24: RemoveBackground, and likewise Enhance, invoked with no current image
\* or while a call of the same kind is in flight does nothing: it starts no
\* remote call, cancels none, and changes no state, ref or object URL.
C24_ReprocessGuardedIsNoOp ==
  [][ /\ ( /\ handleRemoveBg
           /\ (~HasBlob(st.currentImageBlob) \/ InFlight("remove-bg")) )
        => UNCHANGED <<st, ref, urls, calls, nCalls, pendingReads>>
      /\ ( /\ handleEnhance
           /\ (~HasBlob(st.currentImageBlob) \/ InFlight("enhance")) )
        => UNCHANGED <<st, ref, urls, calls, nCalls, pendingReads>> ]_vars

\* C25: no step of an Enhance call (its start, its response, its success, its
\* failure, its cancellation) changes width or height or requests a read of
\* dimensions.
C25_EnhanceKeepsDimensions ==
  [][ ( \/ handleEnhance
        \/ \E c \in calls :
             /\ c.handler = "handleEnhance"
             /\ FetchResolves(c) \/ BodyArrives(c) \/ CallFails(c) \/ AbortRejection(c) )
        => /\ st'.width = st.width /\ st'.height = st.height
           /\ pendingReads' = pendingReads ]_vars

\* an Enhance call has succeeded on an image whose dimensions had been read
C25_Witness ==
  /\ mounted /\ calls = {} /\ pendingReads = {}
  /\ HasBlob(st.currentImageBlob) /\ st.currentImageBlob.ops = <<"enhance">>
  /\ st.imageUrl = st.processedImageUrl
  /\ BlobPx(st.currentImageBlob) # BlobPx(st.originalImageBlob)
  /\ st.width = ClampInches(BlobPx(st.originalImageBlob)[1])
  /\ st.height = ClampInches(BlobPx(st.originalImageBlob)[2])

\* C26: a failed read of an image's pixel dimensions changes nothing: width,
\* height and the rest of the session stay as they are.  The upload that
\* requested it has, without waiting for the read, stored and displayed the
\* original under a live object URL and started the remove-bg call on it when
\* auto-processing is enabled.
C26_FailedReadIsNonFatal ==
  [][ /\ (\E r \in pendingReads : ReadRejects(r))
           => UNCHANGED <<st, ref, urls, calls, nCalls>>
      /\ handleImageUpload
           => LET file == [file |-> nUploads', ops |-> <<>>]
              IN /\ st'.originalImageBlob = file /\ st'.currentImageBlob = file
                 /\ st'.imageUrl = st'.originalImageUrl
                 /\ startsWithBlob(st'.imageUrl)
                 /\ urls'[st'.imageUrl.n] = [blob |-> file, revokes |-> 0]
                 /\ st'.width = st.width /\ st'.height = st.height
                 /\ st.removeBgEnabled
                      => \E c \in calls' : Live(c)' /\ c.id = nCalls' /\ c.input = file ]_vars

\* the read of the uploaded image has failed while its remove-bg call runs
C26_Witness ==
  /\ mounted /\ lastOp = "handleImageUpload" /\ nUploads = 1
  /\ pendingReads = {}
  /\ st.width = InitialSize /\ st.height = InitialSize
  /\ HasBlob(st.originalImageBlob) /\ st.imageUrl = st.originalImageUrl
  /\ \E c \in calls : Live(c) /\ c.handler = "handleImageUpload" /\ c.phase = "fetch"

\* C27: whenever a user event or callback can run, each in-flight status is
\* true exactly while a live call of its kind exists, and at most one of the
\* two is true.
C27_LoadingFlagsMatchLiveCalls ==
  (mounted /\ TaskCanRun) =>
    /\ st.loadingRemoveBg <=> InFlight("remove-bg")
    /\ st.loadingEnhance <=> InFlight("enhance")
    /\ ~(st.loadingRemoveBg /\ st.loadingEnhance)

\* C28: a remote handle is stored only together with its artifact: a processed
\* remote handle only while a processed artifact (blob and display handle) is
\* stored, an original remote handle only while an original is stored.
C28_RemoteHandleHasArtifact ==
  mounted =>
    /\ st.processedServerUrl # NullUrl
         => HasBlob(st.processedImageBlob) /\ st.processedImageUrl # NullUrl
    /\ st.originalServerUrl # NullUrl
         => HasBlob(st.originalImageBlob) /\ st.originalImageUrl # NullUrl

\* the original remote handle is null or addresses the bytes of the stored original
OriginalHandleAddressesOriginal(s) ==
  s.originalServerUrl # NullUrl
    => HasBlob(s.originalImageBlob) /\ s.originalServerUrl.path = s.originalImageBlob

\* C29: the response of a RemoveBackground or Enhance call whose input is the
\* processed (current) image leaves the original remote handle addressing the
\* bytes of the stored original image.
C29_ReprocessKeepsOriginalHandle ==
  [][ \A c \in calls :
        ( /\ mounted
          /\ c.handler \in {"handleRemoveBg", "handleEnhance"}
          /\ HasBlob(st.processedImageBlob) /\ Decodable(st.processedImageBlob)
          /\ c.input = st.processedImageBlob /\ c.input = st.currentImageBlob
          /\ OriginalHandleAddressesOriginal(st)
          /\ FetchResolves(c) )
          => OriginalHandleAddressesOriginal(st') ]_vars

\* width and height as a read of object URL k reports them
ReadResult(k) == <<ClampInches(BlobPx(urls[k].blob)[1]), ClampInches(BlobPx(urls[k].blob)[2])>>

\* C30: reads of dimensions take effect in request order: once the most
\* recently requested read has completed and width and height are the ones it
\* reported, a read requested earlier that completes later does not change them.
C30_ReadsTakeEffectInRequestOrder ==
  [][ \A r \in pendingReads :
        ( /\ mounted
          /\ lastRead # 0 /\ r.url # lastRead
          /\ \A q \in pendingReads : q.url # lastRead
          /\ <<st.width, st.height>> = ReadResult(lastRead)
          /\ ReadResolves(r) )
          => <<st'.width, st'.height>> = <<st.width, st.height>> ]_vars

\* identities of the remote calls of a session of SpecLive
CallIds == 1 .. MaxLiveCalls

\* the handler of call i has not returned yet
Pending(i) == \E c \in calls : c.id = i

\* C31: when every pending await is eventually resumed, every started call
\* eventually settles and the in-flight statuses eventually return to none;
\* and a live call stops being live only by a response to it (its body
\* arrives, it fails) or by an operation of the user: no step of the program
\* on its own (no timeout) ends it.
C31_CallsSettle ==
  /\ \A i \in CallIds : Pending(i) ~> ~Pending(i)
  /\ (mounted /\ (st.loadingRemoveBg \/ st.loadingEnhance))
        ~> (~mounted \/ (~st.loadingRemoveBg /\ ~st.loadingEnhance))
  /\ [][ \A c \in calls :
            (Live(c) /\ ~(\E d \in calls' : d.id = c.id /\ ~d.aborted))
              => \/ CallFails(c) \/ BodyArrives(c)
                 \/ lastOp' \in {"handleImageUpload", "handleRemoveBg", "handleEnhance",
                                 "handleToggleRemoveBg", "handleCancelProcessing"}
                    /\ (handleImageUpload \/ handleRemoveBg \/ handleEnhance
                          \/ handleCancelProcessing
                          \/ \E enabled \in BOOLEAN : handleToggleRemoveBg(enabled)) ]_vars

\* a call that got no response has been stopped by the user, and nothing is
\* reported in flight
C31_Witness ==
  /\ mounted /\ lastOp = "handleCancelProcessing"
  /\ nCalls = 1 /\ calls = {}
  /\ ~HasBlob(st.processedImageBlob) /\ st.processedServerUrl = NullUrl
  /\ ~st.loadingRemoveBg /\ ~st.loadingEnhance

\* C32: a revocation that throws during Upload, RemoveBackground, Enhance or
\* Clear does not stop the operation: Upload stores and displays the new
\* original, RemoveBackground and Enhance store and display the processed
\* image under its new object URL, Clear leaves no image.
C32_ReleaseFailureIsSwallowed ==
  [][ /\ UploadReleaseThrows
           => /\ st'.originalImageBlob = [file |-> nUploads', ops |-> <<>>]
              /\ Artifacts(st').displayed = Artifacts(st').original
              /\ ref'.currentBlobUrlRef = st'.imageUrl
              /\ urls'[st'.imageUrl.n] = [blob |-> st'.originalImageBlob, revokes |-> 0]
      /\ ClearReleaseThrows => NoImage(st')
      /\ \A c \in calls :
           (mounted /\ ResumeReleaseThrows(c))
             => /\ HasBlob(st'.processedImageBlob)
                /\ Artifacts(st').displayed = Artifacts(st').processed
                /\ ref'.currentBlobUrlRef = st'.imageUrl
                /\ urls'[st'.imageUrl.n] = [blob |-> st'.processedImageBlob, revokes |-> 0] ]_vars

\* C33: in every state width and height lie within [0.5, 22.5] inches (50 to
\* 2250 hundredths), whether they come from the initial state, from an image
\* read or from a size control; both are positive.
C33_DimensionsWithinRange ==
  /\ DIMENSION_MIN <= st.width /\ st.width <= DIMENSION_MAX
  /\ DIMENSION_MIN <= st.height /\ st.height <= DIMENSION_MAX
  /\ st.width > 0 /\ st.height > 0

\* a step of the width control has run into the upper limit of the height
C33_Witness ==
  /\ lastOp = "incrementWidth"
  /\ st.height = DIMENSION_MAX /\ st.width < DIMENSION_MAX /\ st.width > DIMENSION_MIN
  /\ nUploads = 1 /\ pendingReads = {}

disabled == st.loadingRemoveBg \/ st.loadingEnhance

\* a step that sends a request to /cart/add.js
SendsCartRequest == Len(cartRequests') > Len(cartRequests)

\* C37: no cart submission is sent while a processing operation is in
\* flight: a click on Add to Cart while the disabled prop
\* (loadingRemoveBg || loadingEnhance) is true sends no request.
C37_NoSubmissionWhileDisabled ==
  [][ SendsCartRequest => ~disabled ]_vars

\* C38: repeated clicks produce at most one cart request until the
\* submission fails or the page is redirected: a click while a request is
\* outstanding, or after a successful submission and before the redirect,
\* sends nothing.
C38_OneRequestPerSubmission ==
  [][ SendsCartRequest => (~cart.outstanding /\ ~cart.success) ]_vars

\* the logo objects a preview canvas holds
Logos(idx) == {obj \in viewer.objects[idx] : obj.kind = "logo"}

\* C35: a logo image load that completes after imageUrl has changed again or
\* been cleared is ignored: at any time each preview canvas holds at most
\* one logo object and, if it holds one, it is the image for the latest
\* imageUrl.
C35_OneCurrentLogoPerCanvas ==
  \A idx \in Products :
    /\ Cardinality(Logos(idx)) <= 1
    /\ \A obj \in Logos(idx) : obj.url = viewer.imageUrl

\* a stale load has completed and been ignored, and a canvas holds the logo
\* of the latest imageUrl
C35_Witness ==
  /\ viewer.ignored
  /\ \E idx \in Products : Logos(idx) # {}

\* every preview canvas shows the logo for url
ShowsOnAll(url) ==
  \A idx \in Products : viewer.fabricCanvasesRef[idx] # 0 /\ \E obj \in Logos(idx) : obj.url = url

\* C36: whenever imageUrl is non-null and all image loads eventually
\* complete, every preview canvas eventually shows the logo for the current
\* imageUrl, also when imageUrl was set before the garment image of the
\* canvas had loaded, or when the canvases are re-created afterwards.
C36_LogoEventuallyShown ==
  \A url \in 1 .. MaxViewerUrls :
    (viewer.imageUrl = url) ~> (viewer.imageUrl # url \/ ShowsOnAll(url))

\* a step in which Upload, Enhance, ToggleAutoProcess or Clear starts
SessionOperationStarts ==
  \/ Upload(FALSE, FALSE)
  \/ handleEnhance
  \/ handleClearDesign
  \/ \E enabled \in BOOLEAN : handleToggleRemoveBg(enabled)

\* C39: while either in-flight status is true the panel disables the toggle,
\* Enhance, Upload Different Image and Remove, so that through the UI no
\* Upload, Enhance, ToggleAutoProcess or Clear starts while the status is
\* true or a call is live.
C39_NoOperationDuringProcessing ==
  [][ SessionOperationStarts => (~isAnyLoading /\ ~\E c \in calls : Live(c)) ]_vars

\* C40: every display handle the panel creates for a selected or dropped
\* file is released exactly once, when the crop modal is applied or
\* cancelled, after which pendingUpload is null; no handle is dropped
\* unreleased.
C40_PendingHandleReleasedOnce ==
  /\ \A h \in 1 .. Len(panel.handles) :
       /\ panel.handles[h] <= 1
       /\ panel.handles[h] = 0 => panel.pendingUpload = h
  /\ ~panel.showCropModal => panel.pendingUpload = 0

====
